---------------------------- MODULE Spec2Model ----------------------------
(***************************************************************************)
(* Model of debugger/pydev_modify_bytecode.py: insert_code splices the     *)
(* instructions of one code object (the snippet) into another (the target) *)
(* before the first instruction of a source line.  The byte streams are    *)
(* CPython 3.6 wordcode: two bytes per instruction, jump operands in       *)
(* bytes, EXTENDED_ARG prefixes carrying the higher operand bytes.         *)
(***************************************************************************)
EXTENDS Integers, Sequences, FiniteSets, TLC

(***************************************************************************)
(* Program constants.                                                      *)
(***************************************************************************)
MAX_BYTE == 255
HAVE_ARGUMENT == 90
EXTENDED_ARG == 144
LOAD_CONST == 100
POP_TOP == 1
RETURN_VALUE == 83
LOAD_NAME == 101
JUMP_FORWARD == 110
JUMP_ABSOLUTE == 113
LOAD_FAST == 124
STORE_FAST == 125

\* dis.hasjrel, dis.hasjabs, dis.hasname, dis.haslocal of CPython 3.6
hasjrel == {93, 110, 120, 121, 122, 143, 154}
hasjabs == {111, 112, 113, 114, 115, 119}
hasname == {90, 91, 95, 96, 97, 98, 101, 106, 108, 109, 116}
haslocal == {124, 125, 126}

\* len(_return_none_fun.__code__.co_code): LOAD_CONST None, RETURN_VALUE
return_none_size == 4

(***************************************************************************)
(* Byte streams are sequences; the byte at offset k is the element k + 1.  *)
(***************************************************************************)
At(code, k) == code[k + 1]

Min(a, b) == IF a < b THEN a ELSE b

\* the offsets range(0, len(code), 2)
InstrOffsets(code) == {k \in 0..(Len(code) - 1) : k % 2 = 0}

\* code[:k] and code[k:] of Python
Take(code, k) == SubSeq(code, 1, Min(k, Len(code)))
Drop(code, k) == SubSeq(code, Min(k, Len(code)) + 1, Len(code))

\* a set of integers as the ascending sequence of its elements
RECURSIVE Ascending(_)
Ascending(S) ==
    IF S = {} THEN <<>>
    ELSE LET m == CHOOSE x \in S : \A y \in S : x <= y
         IN  <<m>> \o Ascending(S \ {m})

(***************************************************************************)
(* dis._unpack_opargs: the operand of the instruction at offset i is its   *)
(* operand byte or-ed with the extended_arg the preceding instructions     *)
(* left: an EXTENDED_ARG leaves its own operand shifted by 8 bits, any     *)
(* other instruction with an operand leaves 0, and an instruction without  *)
(* operand leaves what it found.                                           *)
(***************************************************************************)
\* the offsets before i of the instructions that have an operand
WithOperandBefore(code, i) ==
    {p \in InstrOffsets(code) : p < i /\ At(code, p) >= HAVE_ARGUMENT}

RECURSIVE extended_arg(_, _)
extended_arg(code, i) ==
    IF WithOperandBefore(code, i) = {} THEN 0
    ELSE LET p == CHOOSE q \in WithOperandBefore(code, i) :
                      \A r \in WithOperandBefore(code, i) : r <= q
         IN  IF At(code, p) = EXTENDED_ARG
             THEN (At(code, p + 1) + extended_arg(code, p)) * 256
             ELSE 0

unpack_arg(code, i) == At(code, i + 1) + extended_arg(code, i)


(***************************************************************************)
(* Python dictionaries keep insertion order: a dict is the sequence of its *)
(* <<key, value>> items; assigning to a key it holds replaces the value in *)
(* place, assigning to a new key appends.                                  *)
(***************************************************************************)
DictKeys(d) == {d[n][1] : n \in 1..Len(d)}

DictGet(d, k) == LET n == CHOOSE m \in 1..Len(d) : d[m][1] = k IN d[n][2]

DictSet(d, k, v) ==
    IF k \in DictKeys(d)
    THEN [n \in 1..Len(d) |-> IF d[n][1] = k THEN <<k, v>> ELSE d[n]]
    ELSE Append(d, <<k, v>>)

RECURSIVE DictSetAll(_, _, _)
DictSetAll(d, keys, v) ==
    IF keys = <<>> THEN d
    ELSE DictSetAll(DictSet(d, Head(keys), v), Tail(keys), v)

RECURSIVE SumValues(_)
SumValues(d) == IF d = <<>> THEN 0 ELSE Head(d)[2] + SumValues(Tail(d))

(***************************************************************************)
(* _add_attr_values_from_insert_to_original                                *)
(***************************************************************************)
\* a stricter guard, which would refuse a shifted operand of exactly 255
BadNumberOfArgumentsAt255(operand, orig_names_len) ==
    operand + orig_names_len >= MAX_BYTE

\* the guard of the merge: the shifted operand does not fit one byte
BadNumberOfArguments(operand, orig_names_len) ==
    operand + orig_names_len > MAX_BYTE

\* the operand a snippet instruction of op_list carries after the merge
ShiftedOperand(operand, orig_names_len) == operand + orig_names_len

\* the instructions of insert_code_obj the loop changes
OpsToShift(insert_code_obj, op_list) ==
    {i \in InstrOffsets(insert_code_obj) : At(insert_code_obj, i) \in op_list}

add_attr_raises(orig_value, insert_code_obj, op_list) ==
    \E i \in OpsToShift(insert_code_obj, op_list) :
        BadNumberOfArguments(At(insert_code_obj, i + 1), Len(orig_value))

add_attr_code(orig_value, insert_code_obj, op_list) ==
    [k \in 1..Len(insert_code_obj) |->
        IF k % 2 = 0 /\ (k - 2) \in OpsToShift(insert_code_obj, op_list)
        THEN ShiftedOperand(insert_code_obj[k], Len(orig_value))
        ELSE insert_code_obj[k]]

add_attr_values(orig_value, insert_value) == orig_value \o insert_value

(***************************************************************************)
(* _modify_new_lines: the inner loop over the items of all_inserted_code   *)
(* from item n on, for one line-table entry whose byte increment is now    *)
(* incr and whose span is prev_abs_offset .. abs_offset.                   *)
(***************************************************************************)
InSpan(prev_abs_offset, inserted_offset, abs_offset) ==
    prev_abs_offset <= inserted_offset /\ inserted_offset < abs_offset

RECURSIVE inserted_loop(_, _, _, _, _)
inserted_loop(items, n, prev_abs_offset, incr, abs_offset) ==
    IF n > Len(items) THEN [raised |-> FALSE, incr |-> incr, abs_offset |-> abs_offset]
    ELSE IF InSpan(prev_abs_offset, items[n][1], abs_offset)
         THEN IF incr + items[n][2] > MAX_BYTE
              THEN [raised |-> TRUE, incr |-> incr, abs_offset |-> abs_offset]
              ELSE inserted_loop(items, n + 1, prev_abs_offset,
                                 incr + items[n][2], abs_offset + items[n][2])
         ELSE inserted_loop(items, n + 1, prev_abs_offset, incr, abs_offset)

\* the outer loop from entry i (0-based index of the byte increment) on
RECURSIVE lines_loop(_, _, _, _)
lines_loop(new_list, i, abs_offset, items) ==
    IF i >= Len(new_list) THEN [raised |-> FALSE, lnotab |-> new_list]
    ELSE LET r == inserted_loop(items, 1, abs_offset, At(new_list, i),
                                abs_offset + At(new_list, i))
         IN  IF r.raised THEN [raised |-> TRUE, lnotab |-> new_list]
             ELSE lines_loop([new_list EXCEPT ![i + 1] = r.incr], i + 2,
                             r.abs_offset, items)

modify_new_lines(co_lnotab, items) == lines_loop(co_lnotab, 0, 0, items)

(***************************************************************************)
(* dis.findlinestarts: the <<offset, line>> pairs of a line table.         *)
(***************************************************************************)
SignedIncr(line_incr) == IF line_incr >= 128 THEN line_incr - 256 ELSE line_incr

RECURSIVE linestarts_loop(_, _, _, _, _)
linestarts_loop(lnotab, i, addr, lineno, lastlineno) ==
    IF i >= Len(lnotab)
    THEN IF lineno # lastlineno THEN << <<addr, lineno>> >> ELSE <<>>
    ELSE LET byte_incr == At(lnotab, i)
             line_incr == SignedIncr(At(lnotab, i + 1))
         IN  IF byte_incr # 0
             THEN IF lineno # lastlineno
                  THEN << <<addr, lineno>> >> \o
                       linestarts_loop(lnotab, i + 2, addr + byte_incr,
                                       lineno + line_incr, lineno)
                  ELSE linestarts_loop(lnotab, i + 2, addr + byte_incr,
                                       lineno + line_incr, lastlineno)
             ELSE linestarts_loop(lnotab, i + 2, addr, lineno + line_incr,
                                  lastlineno)

\* lastlineno starts as None: no line number equals it
findlinestarts(code) == linestarts_loop(code.co_lnotab, 0, 0, code.co_firstlineno, -1)

\* before_line not in linestarts.values()
LineNotFound(linestarts, line) == \A n \in 1..Len(linestarts) : linestarts[n][2] # line

\* the loop over linestarts.items() leaves the last offset of that line
OffsetOfLine(linestarts, line) ==
    LET n == CHOOSE m \in 1..Len(linestarts) :
                 /\ linestarts[m][2] = line
                 /\ \A q \in (m + 1)..Len(linestarts) : linestarts[q][2] # line
    IN  linestarts[n][1]

\* code_to_insert.co_code[:-return_none_size]
StripEpilogue(co_code) ==
    IF Len(co_code) >= return_none_size
    THEN SubSeq(co_code, 1, Len(co_code) - return_none_size)
    ELSE <<>>

(***************************************************************************)
(* _update_label_offsets, one pass of its while loop.                      *)
(***************************************************************************)
\* a relative jump at offset whose label is label: the piece goes inside it
InsideRelativeJump(offset, current_offset, label) ==
    offset < current_offset /\ current_offset < label

\* an absolute jump to arg: the piece goes before its target
BeforeAbsoluteTarget(current_offset, arg) == current_offset <= arg

\* offsets_for_modification: the scan of dis._unpack_opargs(code_list)
offsets_for_modification(code, current_offset) ==
    {i \in InstrOffsets(code) :
        /\ At(code, i) >= HAVE_ARGUMENT
        /\ \/ /\ At(code, i) \in hasjrel
              /\ InsideRelativeJump(i, current_offset, i + 2 + unpack_arg(code, i))
           \/ /\ At(code, i) \in hasjabs
              /\ BeforeAbsoluteTarget(current_offset, unpack_arg(code, i))}

\* new_arg = code_list[i + 1] + len(current_code_list)
new_arg(code, i, size) == At(code, i + 1) + size

\* the jumps whose new operand needs an EXTENDED_ARG
overflowed(code, mods, size) == {i \in mods : new_arg(code, i, size) > MAX_BYTE}

\* extended_arg_code = [EXTENDED_ARG, new_arg >> 8]
extended_arg_code(arg) == <<EXTENDED_ARG, arg \div 256>>

\* code_list after the loop that rewrites the operand bytes
rewrite_operands(code, mods, size) ==
    [k \in 1..Len(code) |->
        IF k % 2 = 0 /\ (k - 2) \in mods
        THEN IF new_arg(code, k - 2, size) <= MAX_BYTE
             THEN new_arg(code, k - 2, size)
             ELSE new_arg(code, k - 2, size) % (MAX_BYTE + 1)
        ELSE code[k]]

\* a splice one instruction late, behind the instruction at current_offset
splice_behind(code, current_offset, piece) ==
    Take(code, current_offset + 2) \o piece \o Drop(code, current_offset + 2)

\* code_list[:current_offset] + current_code_list + code_list[current_offset:]
splice(code, current_offset, piece) ==
    Take(code, current_offset) \o piece \o Drop(code, current_offset)

\* the offset of a recorded or pending piece once the current one is in
reindex(current_offset, offset, size) ==
    IF current_offset < offset THEN offset + size ELSE offset

RECURSIVE reindex_dict(_, _, _, _)
reindex_dict(items, acc, current_offset, size) ==
    IF items = <<>> THEN acc
    ELSE reindex_dict(Tail(items),
                      DictSet(acc, reindex(current_offset, Head(items)[1], size),
                              Head(items)[2]),
                      current_offset, size)

reindex_queue(queue, current_offset, size) ==
    [n \in 1..Len(queue) |->
        [queue[n] EXCEPT !.offset = reindex(current_offset, queue[n].offset, size)]]

(***************************************************************************)
(* Where each byte of code_list comes from (history, not program state):   *)
(* byte at of the target's or of the snippet's stream, or a byte of an     *)
(* EXTENDED_ARG the worklist made for the jump that was byte at of its     *)
(* stream.                                                                 *)
(***************************************************************************)
TargetByte(k) == [src |-> "target", at |-> k]
SnippetByte(k) == [src |-> "snippet", at |-> k]
ExtFor(tag) == [src |-> IF tag.src = "target" THEN "ext_target" ELSE "ext_snippet",
                at |-> tag.at]
IsExt(tag) == tag.src \in {"ext_target", "ext_snippet"}

\* the pieces put on the queue for the jumps that overflowed, in scan order
new_pieces(code, tags, overflow_seq, size) ==
    [n \in 1..Len(overflow_seq) |->
        [offset |-> overflow_seq[n],
         code |-> extended_arg_code(new_arg(code, overflow_seq[n], size)),
         origin |-> <<ExtFor(At(tags, overflow_seq[n])),
                      ExtFor(At(tags, overflow_seq[n]))>>]]

(***************************************************************************)
(* Bounds of the model and the code objects insert_code is tried on.       *)
(***************************************************************************)
\* instructions of the long target stream
NInstr == 134
\* instructions of the longest snippet, before its epilogue
MaxSnippet == 128

\* a symbol table of one unit: entry n of that unit's table
Table(unit, len) == [i \in 1..len |-> [unit |-> unit, n |-> i - 1]]

CodeObject(code, names, consts, varnames, lnotab) ==
    [co_code |-> code, co_names |-> names, co_consts |-> consts,
     co_varnames |-> varnames, co_lnotab |-> lnotab, co_firstlineno |-> 1]

NoCode == CodeObject(<<>>, <<>>, <<>>, <<>>, <<>>)

Filler(n) == [k \in 1..(2 * n) |-> IF k % 2 = 1 THEN POP_TOP ELSE 0]

SetInstr(code, at, op, arg) == [code EXCEPT ![at + 1] = op, ![at + 2] = arg]

\* the compiled-in "return None" every snippet ends with
Epilogue == <<LOAD_CONST, 0, RETURN_VALUE, 0>>

\* a jump of the target: its operand, and the jump written into a stream
\* (behind an EXTENDED_ARG when the operand needs two bytes)
JumpArg(j) == IF j.op \in hasjrel THEN j.target - (j.at + 2) ELSE j.target

PlaceJump(code, j) ==
    IF JumpArg(j) > MAX_BYTE
    THEN SetInstr(SetInstr(code, j.at - 2, EXTENDED_ARG, JumpArg(j) \div 256),
                  j.at, j.op, JumpArg(j) % 256)
    ELSE SetInstr(code, j.at, j.op, JumpArg(j))

RECURSIVE PlaceJumps(_, _)
PlaceJumps(code, js) ==
    IF js = <<>> THEN code ELSE PlaceJumps(PlaceJump(code, Head(js)), Tail(js))

\* the short target: one instruction per line, each indexing one table
ShortCode == <<LOAD_NAME, 0, LOAD_FAST, 0, LOAD_CONST, 0, RETURN_VALUE, 0>>
ShortLnotabs == {<<2, 1, 2, 1>>, <<2, 1, 2, 255>>}
TableLens == {1, MAX_BYTE, MAX_BYTE + 1}

\* the long target: filler around a name, a local and a constant load
LongCode ==
    SetInstr(SetInstr(SetInstr(SetInstr(Filler(NInstr),
        0, LOAD_NAME, 0), 12, LOAD_FAST, 0), 14, LOAD_CONST, 0),
        2 * NInstr - 2, RETURN_VALUE, 0)
LongLnotab == <<10, 1, MAX_BYTE - 9, 1>>
JumpOps == {JUMP_FORWARD, JUMP_ABSOLUTE}
JumpTargets == {10, MAX_BYTE - 1, MAX_BYTE + 1, MAX_BYTE + 7}
FirstJumps == {[at |-> 4, op |-> o, target |-> t] : o \in JumpOps, t \in JumpTargets}
SecondJumps == {[at |-> a, op |-> o, target |-> t] :
                    a \in {8, 10}, o \in JumpOps, t \in JumpTargets}
JumpChoices ==
    {<<>>} \cup {<<j>> : j \in FirstJumps \cup SecondJumps}
           \cup {<<j1, j2>> : j1 \in FirstJumps, j2 \in SecondJumps}

\* the stream is well formed: relative jumps go forward, and neither a jump
\* nor a line starts between an EXTENDED_ARG and its instruction
StartsInstr(code, k) == IF k = 0 THEN TRUE ELSE At(code, k - 2) # EXTENDED_ARG

WellFormed(js, lnotab) ==
    LET code == PlaceJumps(LongCode, js)
        starts == findlinestarts(CodeObject(code, <<>>, <<>>, <<>>, lnotab))
    IN  /\ \A n \in 1..Len(js) :
              /\ js[n].op \in hasjrel => js[n].target > js[n].at
              /\ StartsInstr(code, js[n].target)
        /\ \A n \in 1..Len(starts) : StartsInstr(code, starts[n][1])

\* the snippets: filler, one load per table, a relative or an absolute jump
IndexSnippet(a, b, c) == <<LOAD_NAME, a, LOAD_CONST, b, STORE_FAST, c>> \o Epilogue
JumpSnippet(op, arg) == <<op, arg, POP_TOP, 0, POP_TOP, 0>> \o Epilogue
FillerSnippet(n) == Filler(n) \o Epilogue

ShortSnippets ==
    {IndexSnippet(a, b, c) : a \in 0..1, b \in 0..1, c \in 0..1}
        \cup {FillerSnippet(2)}
LongSnippets ==
    {FillerSnippet(n) : n \in {1, 2, MaxSnippet}}
        \cup {IndexSnippet(0, 1, 0), JumpSnippet(JUMP_FORWARD, 2),
              JumpSnippet(JUMP_ABSOLUTE, 4)}

Snippet(code) ==
    CodeObject(code, Table("snippet", 2), Table("snippet", 2),
               Table("snippet", 2), <<>>)

(***************************************************************************)
(* The state: the arguments of insert_code, its locals and those of        *)
(* _update_label_offsets, the position in the code and the outcome.        *)
(***************************************************************************)
VARIABLES code_to_modify, code_to_insert, before_line, pc, offset,
          code_to_insert_obj, new_names, new_consts, new_vars,
          code_list, pieces_of_code_to_insert, all_inserted_code,
          origin, passes, result

vars == <<code_to_modify, code_to_insert, before_line, pc, offset,
          code_to_insert_obj, new_names, new_consts, new_vars,
          code_list, pieces_of_code_to_insert, all_inserted_code,
          origin, passes, result>>

args == <<code_to_modify, code_to_insert, before_line>>
merged == <<code_to_insert_obj, new_names, new_consts, new_vars>>
labels == <<code_list, pieces_of_code_to_insert, all_inserted_code, origin, passes>>

InitLocals ==
    /\ pc = "insert_code"
    /\ offset = -1
    /\ code_to_insert_obj = <<>>
    /\ new_names = <<>>
    /\ new_consts = <<>>
    /\ new_vars = <<>>
    /\ code_list = <<>>
    /\ pieces_of_code_to_insert = <<>>
    /\ all_inserted_code = <<>>
    /\ origin = <<>>
    /\ passes = 0
    /\ result = [kind |-> "none", code |-> NoCode]

\* short targets with symbol tables at the one-byte limit
InitShort ==
    /\ \E ln \in TableLens, lc \in TableLens, lv \in TableLens, lt \in ShortLnotabs :
          code_to_modify = CodeObject(ShortCode, Table("target", ln),
                                      Table("target", lc), Table("target", lv), lt)
    /\ \E s \in ShortSnippets : code_to_insert = Snippet(s)
    /\ before_line \in 1..4

\* long targets with jumps whose operands are at the one-byte limit
InitLong ==
    /\ \E js \in JumpChoices :
          /\ WellFormed(js, LongLnotab)
          /\ code_to_modify = CodeObject(PlaceJumps(LongCode, js), Table("target", 1),
                                         Table("target", 1), Table("target", 1),
                                         LongLnotab)
    /\ \E s \in LongSnippets : code_to_insert = Snippet(s)
    /\ before_line \in 2..4

Init == (InitShort \/ InitLong) /\ InitLocals

(***************************************************************************)
(* insert_code                                                             *)
(***************************************************************************)
\* a return that hands back a rebuilt unit in place of the target itself
ReturnRebuilt ==
    /\ pc = "insert_code"
    /\ LineNotFound(findlinestarts(code_to_modify), before_line)
    /\ result' = [kind |-> "new_code", code |-> code_to_modify]
    /\ pc' = "returned"
    /\ UNCHANGED <<args, offset, merged, labels>>

\* lines 142-145: the line starts no instruction, the target is returned
ReturnUnchanged ==
    /\ pc = "insert_code"
    /\ LineNotFound(findlinestarts(code_to_modify), before_line)
    /\ result' = [kind |-> "code_to_modify", code |-> code_to_modify]
    /\ pc' = "returned"
    /\ UNCHANGED <<args, offset, merged, labels>>

\* lines 146-152: the offset of the line, the snippet without its epilogue
FindOffset ==
    /\ pc = "insert_code"
    /\ ~LineNotFound(findlinestarts(code_to_modify), before_line)
    /\ offset' = OffsetOfLine(findlinestarts(code_to_modify), before_line)
    /\ code_to_insert_obj' = StripEpilogue(code_to_insert.co_code)
    /\ pc' = "merge_names"
    /\ UNCHANGED <<args, new_names, new_consts, new_vars, labels, result>>

Raise ==
    /\ pc' = "raised"
    /\ result' = [kind |-> "ValueError", code |-> NoCode]

\* lines 154-155
MergeNames ==
    /\ pc = "merge_names"
    /\ IF add_attr_raises(code_to_modify.co_names, code_to_insert_obj, hasname)
       THEN Raise /\ UNCHANGED <<code_to_insert_obj, new_names>>
       ELSE /\ code_to_insert_obj' =
                   add_attr_code(code_to_modify.co_names, code_to_insert_obj, hasname)
            /\ new_names' =
                   add_attr_values(code_to_modify.co_names, code_to_insert.co_names)
            /\ pc' = "merge_consts"
            /\ UNCHANGED result
    /\ UNCHANGED <<args, offset, new_consts, new_vars, labels>>

\* lines 156-157
MergeConsts ==
    /\ pc = "merge_consts"
    /\ IF add_attr_raises(code_to_modify.co_consts, code_to_insert_obj, {LOAD_CONST})
       THEN Raise /\ UNCHANGED <<code_to_insert_obj, new_consts>>
       ELSE /\ code_to_insert_obj' =
                   add_attr_code(code_to_modify.co_consts, code_to_insert_obj, {LOAD_CONST})
            /\ new_consts' =
                   add_attr_values(code_to_modify.co_consts, code_to_insert.co_consts)
            /\ pc' = "merge_varnames"
            /\ UNCHANGED result
    /\ UNCHANGED <<args, offset, new_names, new_vars, labels>>

\* lines 158-159
MergeVarnames ==
    /\ pc = "merge_varnames"
    /\ IF add_attr_raises(code_to_modify.co_varnames, code_to_insert_obj, haslocal)
       THEN Raise /\ UNCHANGED <<code_to_insert_obj, new_vars>>
       ELSE /\ code_to_insert_obj' =
                   add_attr_code(code_to_modify.co_varnames, code_to_insert_obj, haslocal)
            /\ new_vars' =
                   add_attr_values(code_to_modify.co_varnames, code_to_insert.co_varnames)
            /\ pc' = "update_label_offsets"
            /\ UNCHANGED result
    /\ UNCHANGED <<args, offset, new_names, new_consts, labels>>

\* lines 67-74: the call of _update_label_offsets up to its loop
StartUpdateLabelOffsets ==
    /\ pc = "update_label_offsets"
    /\ pieces_of_code_to_insert' =
           << [offset |-> offset, code |-> code_to_insert_obj,
               origin |-> [k \in 1..Len(code_to_insert_obj) |-> SnippetByte(k - 1)]] >>
    /\ all_inserted_code' = << <<offset, Len(code_to_insert_obj)>> >>
    /\ code_list' = code_to_modify.co_code
    /\ origin' = [k \in 1..Len(code_to_modify.co_code) |-> TargetByte(k - 1)]
    /\ pc' = "while"
    /\ UNCHANGED <<args, offset, merged, passes, result>>

\* lines 76-123: one pass of the loop
UpdateLabelOffsetsPass ==
    /\ pc = "while"
    /\ pieces_of_code_to_insert # <<>>
    /\ LET current_offset == Head(pieces_of_code_to_insert).offset
           current_code_list == Head(pieces_of_code_to_insert).code
           size == Len(current_code_list)
           mods == offsets_for_modification(code_list, current_offset)
           over == Ascending(overflowed(code_list, mods, size))
           queue == Tail(pieces_of_code_to_insert)
                        \o new_pieces(code_list, origin, over, size)
           items == DictSetAll(all_inserted_code, over, 2)
       IN  /\ code_list' = splice(rewrite_operands(code_list, mods, size),
                                  current_offset, current_code_list)
           /\ origin' = splice(origin, current_offset,
                               Head(pieces_of_code_to_insert).origin)
           /\ all_inserted_code' = reindex_dict(items, <<>>, current_offset, size)
           /\ pieces_of_code_to_insert' = reindex_queue(queue, current_offset, size)
    /\ passes' = passes + 1
    /\ UNCHANGED <<args, pc, offset, merged, result>>

\* lines 125 and 160: the queue is empty, _update_label_offsets returns
ReturnLabelOffsets ==
    /\ pc = "while"
    /\ pieces_of_code_to_insert = <<>>
    /\ pc' = "modify_new_lines"
    /\ UNCHANGED <<args, offset, merged, labels, result>>

\* lines 162-184: the line table, then the new code object
ModifyNewLines ==
    /\ pc = "modify_new_lines"
    /\ LET r == modify_new_lines(code_to_modify.co_lnotab, all_inserted_code)
       IN  IF r.raised
           THEN Raise
           ELSE /\ pc' = "returned"
                /\ result' = [kind |-> "new_code",
                              code |-> [co_code |-> code_list,
                                        co_names |-> new_names,
                                        co_consts |-> new_consts,
                                        co_varnames |-> new_vars,
                                        co_lnotab |-> r.lnotab,
                                        co_firstlineno |-> code_to_modify.co_firstlineno]]
    /\ UNCHANGED <<args, offset, merged, labels>>

Next ==
    \/ ReturnUnchanged
    \/ FindOffset
    \/ MergeNames
    \/ MergeConsts
    \/ MergeVarnames
    \/ StartUpdateLabelOffsets
    \/ UpdateLabelOffsetsPass
    \/ ReturnLabelOffsets
    \/ ModifyNewLines

Spec == Init /\ [][Next]_vars

(***************************************************************************)
(* What the claims speak of, read off the inputs and the byte history.     *)
(***************************************************************************)
IsJump(op) == op \in hasjrel \cup hasjabs

\* the offset a jump at offset i of a stream transfers control to
Destination(code, i) ==
    IF At(code, i) \in hasjrel THEN i + 2 + unpack_arg(code, i)
    ELSE unpack_arg(code, i)

\* where a byte of the target or of the snippet is in code_list
PosOf(tag) == CHOOSE k \in 0..(Len(origin) - 1) : At(origin, k) = tag

\* the EXTENDED_ARG instructions made for the jump tag that sit directly
\* before offset p of code_list, one behind the other
ExtRunBefore(p, tag) ==
    LET Runs == {m \in 0..(p \div 2) :
                    \A q \in 1..m : At(origin, p - 2 * q) = ExtFor(tag)}
    IN  CHOOSE m \in Runs : \A r \in Runs : r <= m

\* every EXTENDED_ARG instruction made for the jump tag
ExtsFor(tag) == {k \in InstrOffsets(code_list) : At(origin, k) = ExtFor(tag)}

\* where the instruction that began at byte tag begins in code_list: at its
\* first byte, or at the EXTENDED_ARG run made for it
LogicalStart(tag) == PosOf(tag) - 2 * ExtRunBefore(PosOf(tag), tag)

TargetJumps ==
    {j \in InstrOffsets(code_to_modify.co_code) : IsJump(At(code_to_modify.co_code, j))}

StrippedSnippet == SubSeq(code_to_insert.co_code, 1, Len(code_to_insert.co_code) - 4)

SnippetJumps == {j \in InstrOffsets(StrippedSnippet) : IsJump(At(StrippedSnippet, j))}

\* _update_label_offsets has returned its stream and its insertion map
LabelsReturned == pc = "modify_new_lines"

Succeeded == pc = "returned" /\ result.kind = "new_code"

\* C1 Jump-correctness: in the stream _update_label_offsets returns, every
\* jump of the target reaches the instruction it reached before insertion,
\* at that instruction's new place.
C1_JumpCorrectness ==
    LabelsReturned =>
        \A j \in TargetJumps :
            Destination(code_list, PosOf(TargetByte(j)))
                = LogicalStart(TargetByte(Destination(code_to_modify.co_code, j)))

\* C4 Extended-operand chaining: a jump of the target whose operand byte was
\* pushed above 255 has, in the returned stream, exactly one EXTENDED_ARG
\* made for it, directly before it, and its wide operand decodes to the new
\* offset of its original destination.
C4_ExtendedOperandChaining ==
    LabelsReturned =>
        \A j \in TargetJumps :
            ExtsFor(TargetByte(j)) # {} =>
                /\ Cardinality(ExtsFor(TargetByte(j))) = 1
                /\ ExtRunBefore(PosOf(TargetByte(j)), TargetByte(j)) = 1
                /\ Destination(code_list, PosOf(TargetByte(j)))
                     = LogicalStart(TargetByte(Destination(code_to_modify.co_code, j)))

\* C10 Snippet control flow: every jump of the snippet reaches, in the
\* returned stream, the snippet instruction it reached in the snippet.
C10_SnippetControlFlow ==
    LabelsReturned =>
        \A j \in SnippetJumps :
            Destination(code_list, PosOf(SnippetByte(j)))
                = LogicalStart(SnippetByte(Destination(StrippedSnippet, j)))

\* the offsets of code_list where a run of inserted bytes begins, and the
\* length of the run put there: the snippet, or one EXTENDED_ARG
InsertedRuns ==
    {<<PosOf(SnippetByte(0)), Len(StrippedSnippet)>>}
        \cup {<<k, 2>> : k \in {q \in InstrOffsets(code_list) : IsExt(At(origin, q))}}

MapAccurate ==
    /\ Len(all_inserted_code) = passes
    /\ {all_inserted_code[n] : n \in 1..Len(all_inserted_code)} = InsertedRuns
    /\ SumValues(all_inserted_code) = Len(code_list) - Len(code_to_modify.co_code)

\* C9 Insertion-map accounting: the map _update_label_offsets returns has
\* one entry per insertion made, keyed by the offset at which that run
\* begins in the returned stream, and its values add up to the growth of
\* the stream.
C9_InsertionMapAccounting == LabelsReturned => MapAccurate

\* the line starts of the target, and whether before_line is among them
TargetLineStarts == findlinestarts(code_to_modify)

NoLineStart ==
    \A n \in 1..Len(TargetLineStarts) : TargetLineStarts[n][2] # before_line

\* the offset before_line resolves to: its last line start
ResolvedOffset ==
    LET At_line == {TargetLineStarts[n][1] : n \in
                       {m \in 1..Len(TargetLineStarts) :
                            TargetLineStarts[m][2] = before_line}}
    IN  CHOOSE a \in At_line : \A b \in At_line : b <= a

\* the table an opcode indexes, if any
IndexedTable(op) ==
    IF op \in hasname THEN "co_names"
    ELSE IF op = LOAD_CONST THEN "co_consts"
    ELSE IF op \in haslocal THEN "co_varnames"
    ELSE "none"

TableOf(code, name) ==
    IF name = "co_names" THEN code.co_names
    ELSE IF name = "co_consts" THEN code.co_consts
    ELSE code.co_varnames

\* byte k of a stream is the operand byte of a jump, or of an instruction
\* that indexes a table
IsJumpOperand(code, k) == k % 2 = 1 /\ IsJump(At(code, k - 1))
IsIndexOperand(code, k) == k % 2 = 1 /\ IndexedTable(At(code, k - 1)) # "none"

\* the instruction at offset p of the stream out resolves, in the unit
\* whose stream it is, to entry
ResolvesTo(unit, out, p, entry) ==
    LET table == TableOf(unit, IndexedTable(At(out, p)))
        index == unpack_arg(out, p)
    IN  index + 1 \in DOMAIN table /\ table[index + 1] = entry

InsertedBefore(p) ==
    LET Runs == {m \in 0..p : \A q \in 1..m : At(origin, p - q).src # "target"}
    IN  CHOOSE m \in Runs : \A r \in Runs : r <= m

\* C3 Line-table round trip: decoding the line table _modify_new_lines
\* returns gives every source line of the target the offset its first
\* instruction has in the new stream: its old offset plus the bytes inserted
\* before it.  The bytes inserted exactly at the line's own start may count
\* or not (the claim counts them), and only runs in which the insertion map
\* is accurate are looked at.
C3_LineTableRoundTrip ==
    (Succeeded /\ MapAccurate) =>
        LET new_starts == findlinestarts(result.code)
        IN  /\ Len(new_starts) = Len(TargetLineStarts)
            /\ \A n \in 1..Len(TargetLineStarts) :
                  LET p == PosOf(TargetByte(TargetLineStarts[n][1]))
                  IN  /\ new_starts[n][2] = TargetLineStarts[n][2]
                      /\ new_starts[n][1] \in {p, p - InsertedBefore(p)}

\* a snippet instruction that indexes the table name has an operand which,
\* shifted by the target's table length, exceeds one byte
TableOverflows(name) ==
    \E j \in InstrOffsets(StrippedSnippet) :
        /\ IndexedTable(At(StrippedSnippet, j)) = name
        /\ At(StrippedSnippet, j + 1) + Len(TableOf(code_to_modify, name)) > 255

AnyTableOverflows ==
    TableOverflows("co_names") \/ TableOverflows("co_consts")
        \/ TableOverflows("co_varnames")

Finished == pc \in {"returned", "raised"}

\* C6 Overflow escalation: once the line is found, the merge fails with the
\* capacity error exactly when some snippet instruction's operand plus the
\* length of the target table it indexes exceeds 255 (255 itself is
\* accepted), and then insert_code raises and returns no code unit.
C6_OverflowEscalation ==
    (Finished /\ ~NoLineStart) =>
        /\ AnyTableOverflows =>
              /\ pc = "raised"
              /\ result = [kind |-> "ValueError", code |-> NoCode]
              /\ passes = 0
        /\ (~AnyTableOverflows /\ pc = "raised") => passes > 0

\* C6 happens: a target with 256 names, a snippet that loads a name, and
\* insert_code has raised
C6_Raised256Names ==
    /\ pc = "raised"
    /\ Len(code_to_modify.co_names) = MAX_BYTE + 1
    /\ TableOverflows("co_names")
    /\ result.kind = "ValueError"

\* C7 Round-trip no-op: when before_line is the line of no line start,
\* insert_code returns the target itself and runs no merge, no retargeting
\* and no line-table step.
C7_RoundTripNoOp ==
    (pc # "insert_code" /\ NoLineStart) =>
        /\ pc = "returned"
        /\ result = [kind |-> "code_to_modify", code |-> code_to_modify]
        /\ code_to_insert_obj = <<>> /\ new_names = <<>>
        /\ new_consts = <<>> /\ new_vars = <<>>
        /\ code_list = <<>> /\ all_inserted_code = <<>> /\ passes = 0

\* C7 happens: insert_code has returned for a line that starts nothing
C7_ReturnedForMissingLine ==
    /\ pc = "returned"
    /\ NoLineStart
    /\ result.kind = "code_to_modify"
    /\ Len(code_to_modify.co_code) > 0

\* the snippet's bytes as the merge is to leave them
ShiftedSnippet ==
    [k \in 1..Len(StrippedSnippet) |->
        IF IsIndexOperand(StrippedSnippet, k - 1)
        THEN StrippedSnippet[k]
                 + Len(TableOf(code_to_modify, IndexedTable(StrippedSnippet[k - 1])))
        ELSE StrippedSnippet[k]]

\* C8 End-to-end splice: when the line resolves to offset o and no jump
\* operand overflows, the new stream is the target before o, the shifted
\* snippet without its epilogue, the target from o on; target bytes differ
\* only in jump operands, the length grows by the snippet's length less the
\* epilogue's, and offset o holds the snippet's first instruction.
C8_EndToEndSplice ==
    (Succeeded /\ passes = 1) =>
        LET T == code_to_modify.co_code
            S == ShiftedSnippet
            o == ResolvedOffset
            out == result.code.co_code
        IN  /\ Len(out) = Len(T) + Len(code_to_insert.co_code) - 4
            /\ \A k \in 0..(o - 1) : ~IsJumpOperand(T, k) => At(out, k) = At(T, k)
            /\ \A k \in 0..(Len(S) - 1) : At(out, o + k) = At(S, k)
            /\ \A k \in o..(Len(T) - 1) :
                  ~IsJumpOperand(T, k) => At(out, k + Len(S)) = At(T, k)

\* C8 happens: a snippet whose operands were shifted went in behind the
\* start of a target with a jump, whose operand grew without overflow
C8_SplicedInside ==
    /\ Succeeded /\ passes = 1
    /\ ResolvedOffset > 0
    /\ \E j \in TargetJumps :
          At(result.code.co_code, PosOf(TargetByte(j)) + 1)
              = At(code_to_modify.co_code, j + 1) + Len(StrippedSnippet)

=============================================================================
